---- MODULE Spec2Model ----
(***************************************************************************)
(* Chanlun bar processing pipeline (src/chanlun_processor.py).             *)
(*                                                                         *)
(* A DataFrame is a sequence of rows (records).  Position p of a sequence  *)
(* is row p-1 of the DataFrame: the source counts from 0, the model from   *)
(* 1, and every index expression below is the source's shifted by one.     *)
(* Python's None is the string "None".                                     *)
(***************************************************************************)
EXTENDS Integers, Sequences, FiniteSets, TLC

\* ---------------------------------------------------------------- bounds
MaxLen == 4
MaxPrice == 3
FLen == 3

\* ------------------------------------------------- program constants
\* default of filter_fractals_by_extremes(window=4)
Window == 4
\* default of filter_close_fractals(min_gap=4)
MinGap == 4

VARIABLES
    pc,                 \* position of the driver (process_klines / a direct call)
    original_data,      \* self.original_data: the raw input
    initial_direction,  \* self.initial_direction
    trimmed_data,       \* self.trimmed_data
    i, j,               \* merge_klines: loop indices
    chanlun_group,      \* merge_klines: the candidate being formed
    chanlun_klines,     \* merge_klines: emitted structural bars
    chanlun_data,       \* self.chanlun_data
    fractals_data,      \* the working frame of process_fractals
    before,             \* the frame the last filter pass received
    scanned,            \* the frame after the last pass's own scan, before its F2 re-run
    last_pass,          \* name of the last pass applied
    strokes,            \* identify_segments: the list `segments` of the call
    segments,           \* self.segments
    segments_data,      \* self.segments_data: the frame process_klines returns
    label0,             \* index label of the first row of the input frame
    run,                \* number of the process_klines call on this instance
    first_run,          \* input and results of the first call
    code,               \* normalize_stock_code: the argument, a sequence of characters
    normalized          \* normalize_stock_code: the returned string (<<>> before the call)

\* what identify_segments writes
stroke_vars == <<strokes, segments, segments_data>>

\* what changes only between two calls of process_klines
session_vars == <<label0, run, first_run>>

\* the symbol normalizer: its argument and what it returned
symbol_vars == <<code, normalized>>

vars == <<pc, original_data, initial_direction, trimmed_data, i, j, chanlun_group,
          chanlun_klines, chanlun_data, fractals_data, before, scanned, last_pass,
          stroke_vars, session_vars, symbol_vars>>

\* ---------------------------------------------------------------- helpers
Max2(a, b) == IF a >= b THEN a ELSE b
Min2(a, b) == IF a <= b THEN a ELSE b

\* max(...) / min(...) of a non-empty set of numbers
SetMax(S) == CHOOSE m \in S : \A x \in S : x <= m
SetMin(S) == CHOOSE m \in S : \A x \in S : m <= x

\* -------------------------------------------------------------- raw input
\* Timestamps of a fetched frame: strictly ascending, 5-minute bars.
Timestamp(p) == 900 + 5 * p

\* A raw row with the given high and low; open/close sit on the range ends.
RawRow(p, h, l) ==
    [datetime |-> Timestamp(p), open |-> l, high |-> h, low |-> l, close |-> h,
     volume |-> p, amount |-> p * h]

PricePairs == {hl \in (1..MaxPrice) \X (1..MaxPrice) : hl[1] >= hl[2]}

FrameOf(pairs) == [p \in 1..Len(pairs) |-> RawRow(p, pairs[p][1], pairs[p][2])]

BoundedInputs == UNION {[1..n -> PricePairs] : n \in 1..MaxLen}

\* Literal inputs: spec scenarios A and B, and longer runs of bars.
ScenarioA == <<(<<10, 8>>), <<15, 12>>, <<12, 7>>, <<11, 9>>, <<13, 10>>>>
ScenarioB == <<(<<10, 5>>), <<9, 6>>, <<11, 4>>>>
\* six bars whose third structural bar covers both of its neighbours
InputCover == <<(<<10, 5>>), <<12, 7>>, <<11, 6>>, <<13, 6>>, <<12, 5>>, <<11, 7>>>>
\* a zigzag of nine bars without containment
InputZigzag == <<(<<4, 1>>), <<6, 3>>, <<5, 2>>, <<8, 4>>, <<7, 3>>, <<9, 5>>, <<6, 2>>,
                 <<8, 4>>, <<7, 3>>>>
\* fifteen bars without containment: a low top near the start, then a rise to a
\* bottom that lies above it and to a last top
InputStaircase == <<(<<2, 1>>), <<5, 4>>, <<4, 3>>, <<5, 4>>, <<4, 3>>, <<5, 4>>, <<8, 7>>,
                    <<9, 8>>, <<10, 9>>, <<9, 7>>, <<8, 6>>, <<9, 7>>, <<11, 8>>,
                    <<12, 9>>, <<11, 8>>>>
\* seventeen bars without containment whose marks come in close pairs
InputClosePairs == <<(<<1, 1>>), <<6, 6>>, <<5, 5>>, <<4, 4>>, <<3, 3>>, <<2, 2>>, <<5, 4>>,
                     <<3, 3>>, <<2, 2>>, <<3, 3>>, <<1, 1>>, <<2, 2>>, <<3, 3>>, <<4, 4>>,
                     <<5, 5>>, <<1, 1>>, <<2, 2>>>>
\* fifteen bars whose late top lies below an earlier bottom
InputLateTop == <<(<<14, 14>>), <<13, 13>>, <<12, 12>>, <<13, 13>>, <<11, 11>>, <<12, 12>>,
                  <<14, 14>>, <<12, 12>>, <<14, 12>>, <<11, 11>>, <<3, 3>>, <<2, 2>>,
                  <<3, 3>>, <<11, 11>>, <<1, 1>>>>

\* six bars falling from the first high: the fourth structural bar absorbs a bar
\* while the direction is up and ends inside the third
InputInheritedTag == <<(<<9, 8>>), <<6, 5>>, <<8, 6>>, <<7, 5>>, <<7, 6>>, <<6, 5>>>>

ScenarioInputs ==
    {ScenarioA, ScenarioB, InputCover, InputZigzag, InputStaircase, InputClosePairs,
     InputLateTop, InputInheritedTag}

\* ---------------------------------------------------------------- trimmer
\* Series.idxmax(): label of the first occurrence of the maximum
IdxMaxHigh(df) ==
    LET m == SetMax({df[p].high : p \in 1..Len(df)})
    IN  SetMin({p \in 1..Len(df) : df[p].high = m})

\* Series.idxmin(): label of the first occurrence of the minimum
IdxMinLow(df) ==
    LET m == SetMin({df[p].low : p \in 1..Len(df)})
    IN  SetMin({p \in 1..Len(df) : df[p].low = m})

\* df.iloc[k:] for a 0-based k: the rows after the first k, none if k >= len(df)
ILocSkip(df, k) == IF k >= Len(df) THEN <<>> ELSE SubSeq(df, k + 1, Len(df))

\* variant: on a tie of the two timestamps the low is taken to come first
trim_low_first(df, first_label) ==
    LET max_high_datetime == df[IdxMaxHigh(df)].datetime
        min_low_datetime  == df[IdxMinLow(df)].datetime
        earlier_datetime  == Min2(max_high_datetime, min_low_datetime)
        earlier_type      == IF earlier_datetime = min_low_datetime THEN "low" ELSE "high"
        earlier_idx       == first_label
                             + SetMin({p \in 1..Len(df) : df[p].datetime = earlier_datetime}) - 1
    IN  [df |-> IF earlier_idx > 0 THEN ILocSkip(df, earlier_idx) ELSE df,
         initial_direction |-> IF earlier_type = "high" THEN "down" ELSE "up",
         dropped |-> IF earlier_idx > 0 THEN Min2(earlier_idx, Len(df)) ELSE 0]

\* trim_data_by_extremes on a non-empty frame that has the required columns and
\* whose index runs first_label, first_label + 1, ...: the returned frame, the
\* value left in self.initial_direction and the number of rows dropped.
\* earlier_idx is an index label; df.iloc[earlier_idx:] takes it as a position.
trim_data_by_extremes(df, first_label) ==
    LET max_high_idx      == IdxMaxHigh(df)
        max_high_datetime == df[max_high_idx].datetime
        min_low_idx       == IdxMinLow(df)
        min_low_datetime  == df[min_low_idx].datetime
        earlier_datetime  == Min2(max_high_datetime, min_low_datetime)
        earlier_type      == IF earlier_datetime = max_high_datetime THEN "high" ELSE "low"
        direction         == IF earlier_type = "high" THEN "down" ELSE "up"
        earlier_idx       == first_label
                             + SetMin({p \in 1..Len(df) : df[p].datetime = earlier_datetime}) - 1
    IN  [df |-> IF earlier_idx > 0 THEN ILocSkip(df, earlier_idx) ELSE df,
         initial_direction |-> direction,
         dropped |-> IF earlier_idx > 0 THEN Min2(earlier_idx, Len(df)) ELSE 0]

\* ----------------------------------------------------------------- merger
\* check_inclusion(k1, k2)
check_inclusion(k1, k2) ==
    IF k1.high >= k2.high /\ k1.low <= k2.low
    THEN [has_inclusion |-> TRUE, included |-> k2, including |-> k1]
    ELSE IF k2.high >= k1.high /\ k2.low <= k1.low
    THEN [has_inclusion |-> TRUE, included |-> k1, including |-> k2]
    ELSE [has_inclusion |-> FALSE, included |-> "None", including |-> "None"]

\* variant: when the last bar made neither a higher high nor a lower low the
\* seed is returned in place of the last bar's own tag
determine_direction_seed(klines, seed) ==
    IF Len(klines) < 2 THEN seed
    ELSE LET last_kline        == klines[Len(klines)]
             second_last_kline == klines[Len(klines) - 1]
         IN  IF last_kline.high > second_last_kline.high THEN "up"
             ELSE IF last_kline.low < second_last_kline.low THEN "down"
             ELSE seed

\* determine_direction(chanlun_klines), reading self.initial_direction (seed)
determine_direction(klines, seed) ==
    IF Len(klines) = 0 THEN seed
    ELSE IF Len(klines) = 1 THEN seed
    ELSE LET last_kline        == klines[Len(klines)]
             second_last_kline == klines[Len(klines) - 1]
         IN  IF last_kline.high > second_last_kline.high THEN "up"
             ELSE IF last_kline.low < second_last_kline.low THEN "down"
             ELSE last_kline.direction

\* sum(kline[field] for kline in group)
RECURSIVE SumVolume(_)
SumVolume(group) ==
    IF group = <<>> THEN 0 ELSE group[1].volume + SumVolume(SubSeq(group, 2, Len(group)))
RECURSIVE SumAmount(_)
SumAmount(group) ==
    IF group = <<>> THEN 0 ELSE group[1].amount + SumAmount(SubSeq(group, 2, Len(group)))

\* variant: the merged low is the smaller low whatever the direction
merged_kline_low_min(group, next_kline, klines, seed) ==
    LET inc               == check_inclusion(group[Len(group)], next_kline)
        current_direction == determine_direction(klines, seed)
    IN  [datetime |-> group[1].datetime,
         open     |-> group[1].open,
         high     |-> IF current_direction = "up"
                      THEN Max2(inc.including.high, inc.included.high)
                      ELSE Min2(inc.including.high, inc.included.high),
         low      |-> Min2(inc.including.low, inc.included.low),
         close    |-> next_kline.close,
         volume   |-> SumVolume(group \o <<next_kline>>),
         amount   |-> SumAmount(group \o <<next_kline>>)]

\* variant: the merged high is taken from the lows and the merged low from the highs
merged_kline_swapped(group, next_kline, klines, seed) ==
    LET inc               == check_inclusion(group[Len(group)], next_kline)
        current_direction == determine_direction(klines, seed)
    IN  [datetime |-> group[1].datetime,
         open     |-> group[1].open,
         high     |-> IF current_direction = "up"
                      THEN Max2(inc.including.low, inc.included.low)
                      ELSE Min2(inc.including.low, inc.included.low),
         low      |-> IF current_direction = "up"
                      THEN Max2(inc.including.high, inc.included.high)
                      ELSE Min2(inc.including.high, inc.included.high),
         close    |-> next_kline.close,
         volume   |-> SumVolume(group \o <<next_kline>>),
         amount   |-> SumAmount(group \o <<next_kline>>)]

\* variant: the merged bar carries the volume and amount of the absorbed bar only
merged_kline_last_volume(group, next_kline, klines, seed) ==
    LET inc               == check_inclusion(group[Len(group)], next_kline)
        current_direction == determine_direction(klines, seed)
    IN  [datetime |-> group[1].datetime,
         open     |-> group[1].open,
         high     |-> IF current_direction = "up"
                      THEN Max2(inc.including.high, inc.included.high)
                      ELSE Min2(inc.including.high, inc.included.high),
         low      |-> IF current_direction = "up"
                      THEN Max2(inc.including.low, inc.included.low)
                      ELSE Min2(inc.including.low, inc.included.low),
         close    |-> next_kline.close,
         volume   |-> next_kline.volume,
         amount   |-> next_kline.amount]

\* the Series built when next_kline is absorbed into the group
merged_kline(group, next_kline, klines, seed) ==
    LET inc               == check_inclusion(group[Len(group)], next_kline)
        current_direction == determine_direction(klines, seed)
        merged_high == IF current_direction = "up"
                       THEN Max2(inc.including.high, inc.included.high)
                       ELSE Min2(inc.including.high, inc.included.high)
        merged_low  == IF current_direction = "up"
                       THEN Max2(inc.including.low, inc.included.low)
                       ELSE Min2(inc.including.low, inc.included.low)
    IN  [datetime |-> group[1].datetime,
         open     |-> group[1].open,
         high     |-> merged_high,
         low      |-> merged_low,
         close    |-> next_kline.close,
         volume   |-> SumVolume(group \o <<next_kline>>),
         amount   |-> SumAmount(group \o <<next_kline>>)]

\* the dict appended to chanlun_klines when the group is closed
chanlun_kline(group, klines, seed) ==
    LET final_kline == group[Len(group)]
    IN  [datetime  |-> group[1].datetime,
         open      |-> group[1].open,
         high      |-> final_kline.high,
         low       |-> final_kline.low,
         close     |-> final_kline.close,
         volume    |-> SumVolume(group),
         amount    |-> SumAmount(group),
         direction |-> determine_direction(klines, seed)]

\* ---------------------------------------------------- fractal identifier
\* check_top_fractal(klines, index)
check_top_fractal(klines, index) ==
    IF index < 2 \/ index >= Len(klines) THEN FALSE
    ELSE LET k1 == klines[index - 1]
             k2 == klines[index]
             k3 == klines[index + 1]
         IN  k2.high > k1.high /\ k2.high > k3.high

\* check_bottom_fractal(klines, index)
check_bottom_fractal(klines, index) ==
    IF index < 2 \/ index >= Len(klines) THEN FALSE
    ELSE LET k1 == klines[index - 1]
             k2 == klines[index]
             k3 == klines[index + 1]
         IN  k2.low < k1.low /\ k2.low < k3.low

\* the entry of the list `fractals` for position p ("None": no entry)
FractalEntry(klines, p, seed) ==
    IF p = 1
    THEN IF seed = "down" THEN "top" ELSE IF seed = "up" THEN "bottom" ELSE "None"
    ELSE IF check_top_fractal(klines, p) THEN "top"
    ELSE IF check_bottom_fractal(klines, p) THEN "bottom"
    ELSE "None"

\* identify_fractals(df) on a non-empty frame labelled 0..n-1
identify_fractals(df, seed) ==
    [p \in 1..Len(df) |->
        LET t == FractalEntry(df, p, seed)
        IN  df[p] @@ [fractal_type |-> t, is_fractal |-> (t # "None")]]

\* variant: only fractal_type is reset
ClearTypeOnly(df, p) == [df EXCEPT ![p].fractal_type = "None"]

\* result_df.loc[p, 'fractal_type'] = None; result_df.loc[p, 'is_fractal'] = False
ClearMark(df, p) == [df EXCEPT ![p].fractal_type = "None", ![p].is_fractal = FALSE]

\* ------------------------------------------------------ F1 window filter
\* variant: the window slice leaves out its last row (klines[start_idx:end_idx])
filter_by_extremes_short_slice(df, window) ==
    LET n == Len(df)
    IN  [p \in 1..n |->
            IF ~df[p].is_fractal \/ df[p].fractal_type = "None" THEN df[p]
            ELSE LET rows == Max2(1, p - window)..(Min2(n, p + window) - 1)
                 IN  IF \/ /\ df[p].fractal_type = "top"
                           /\ \E q \in rows : df[q].high > df[p].high
                        \/ /\ df[p].fractal_type = "bottom"
                           /\ \E q \in rows : df[q].low < df[p].low
                     THEN [df[p] EXCEPT !.fractal_type = "None", !.is_fractal = FALSE]
                     ELSE df[p]]

filter_fractals_by_extremes(df, window) ==
    LET n == Len(df)
    IN  [p \in 1..n |->
            IF ~df[p].is_fractal THEN df[p]
            ELSE IF df[p].fractal_type = "None" THEN df[p]
            ELSE LET start_idx == Max2(1, p - window)
                     end_idx   == Min2(n, p + window)
                     max_high_in_window == SetMax({df[q].high : q \in start_idx..end_idx})
                     min_low_in_window  == SetMin({df[q].low : q \in start_idx..end_idx})
                 IN  IF df[p].fractal_type = "top" /\ df[p].high < max_high_in_window
                     THEN ClearMark(df, p)[p]
                     ELSE IF df[p].fractal_type = "bottom" /\ df[p].low > min_low_in_window
                     THEN ClearMark(df, p)[p]
                     ELSE df[p]]

\* ------------------------------------------- F2 consecutive-same-type filter
\* where the inner `while j < n` stops: the first later mark of another type
GroupStop(res, from, current_type) ==
    LET S == {q \in from..Len(res) : res[q].is_fractal /\ res[q].fractal_type # current_type}
    IN  IF S = {} THEN Len(res) + 1 ELSE SetMin(S)

\* consecutive_group: the marks of current_type met before the stop
ConsecutiveGroup(res, from, current_type) ==
    {q \in from..(GroupStop(res, from, current_type) - 1) :
        res[q].is_fractal /\ res[q].fractal_type = current_type}

\* variant: `>=` in the scan, the last index of the largest high wins
MaxHighIdxLast(klines, group) ==
    SetMax({q \in group : klines[q].high = SetMax({klines[r].high : r \in group})})

\* the scan `if klines[idx]['high'] > max_high`: first index of the largest high
MaxHighIdx(klines, group) ==
    SetMin({q \in group : klines[q].high = SetMax({klines[r].high : r \in group})})

\* the scan `if klines[idx]['low'] < min_low`: first index of the smallest low
MinLowIdx(klines, group) ==
    SetMin({q \in group : klines[q].low = SetMin({klines[r].low : r \in group})})

\* variant: the clearing loop stops after its first row
ClearFirstOnly(res, group) ==
    IF group = {} THEN res
    ELSE [res EXCEPT ![SetMin(group)].fractal_type = "None",
                     ![SetMin(group)].is_fractal = FALSE]

RECURSIVE ClearAll(_, _)
ClearAll(res, group) ==
    IF group = {} THEN res
    ELSE LET q == SetMin(group) IN ClearAll(ClearMark(res, q), group \ {q})

\* the body of `while i < n`, from position p on
RECURSIVE ConsecutiveLoop(_, _, _)
ConsecutiveLoop(klines, res, p) ==
    IF p > Len(res) THEN res
    ELSE IF ~res[p].is_fractal THEN ConsecutiveLoop(klines, res, p + 1)
    ELSE IF res[p].fractal_type = "None" THEN ConsecutiveLoop(klines, res, p + 1)
    ELSE LET current_type == res[p].fractal_type
             stop  == GroupStop(res, p, current_type)
             group == ConsecutiveGroup(res, p, current_type)
         IN  IF Cardinality(group) <= 1 THEN ConsecutiveLoop(klines, res, stop)
             ELSE IF current_type = "top"
             THEN ConsecutiveLoop(klines,
                      ClearAll(res, group \ {MaxHighIdx(klines, group)}), stop)
             ELSE IF current_type = "bottom"
             THEN ConsecutiveLoop(klines,
                      ClearAll(res, group \ {MinLowIdx(klines, group)}), stop)
             ELSE ConsecutiveLoop(klines, res, stop)

\* variant: runs of marks of one type are left as they are
keep_consecutive_fractals(df) == df

filter_consecutive_fractals(df) == ConsecutiveLoop(df, df, 1)

\* ascending sequence of a finite set of positions
RECURSIVE Ascending(_)
Ascending(S) == IF S = {} THEN <<>> ELSE <<SetMin(S)>> \o Ascending(S \ {SetMin(S)})

\* ------------------------------------------------ F3 relationship validator
\* fractal_indices: positions with is_fractal, taken once before the scan
FractalIndices(df) == Ascending({p \in 1..Len(df) : df[p].is_fractal})

\* prev_opposite_idx (0: None): read from result_df as it is at this moment
PrevOpposite(res, fi, k) ==
    LET S == {q \in 1..(k - 1) : res[fi[q]].fractal_type # "None"
                                  /\ res[fi[q]].fractal_type # res[fi[k]].fractal_type}
    IN  IF S = {} THEN 0 ELSE fi[SetMax(S)]

\* next_opposite_idx (0: None)
NextOpposite(res, fi, k) ==
    LET S == {q \in (k + 1)..Len(fi) : res[fi[q]].fractal_type # "None"
                                        /\ res[fi[q]].fractal_type # res[fi[k]].fractal_type}
    IN  IF S = {} THEN 0 ELSE fi[SetMin(S)]

\* variant: `>` and `<` where the source compares with `>=` and `<=`
RelationValidStrict(klines, res, fi, k) ==
    LET current_idx       == fi[k]
        prev_opposite_idx == PrevOpposite(res, fi, k)
        next_opposite_idx == NextOpposite(res, fi, k)
    IN  IF res[current_idx].fractal_type = "bottom"
        THEN /\ (prev_opposite_idx # 0 =>
                    ~(klines[current_idx].low > klines[prev_opposite_idx].high))
             /\ (next_opposite_idx # 0 =>
                    ~(klines[current_idx].low > klines[next_opposite_idx].high))
        ELSE IF res[current_idx].fractal_type = "top"
        THEN /\ (prev_opposite_idx # 0 =>
                    ~(klines[current_idx].high < klines[prev_opposite_idx].low))
             /\ (next_opposite_idx # 0 =>
                    ~(klines[current_idx].high < klines[next_opposite_idx].low))
        ELSE TRUE

\* `valid` for the mark at list position k
RelationValid(klines, res, fi, k) ==
    LET current_idx       == fi[k]
        prev_opposite_idx == PrevOpposite(res, fi, k)
        next_opposite_idx == NextOpposite(res, fi, k)
    IN  IF res[current_idx].fractal_type = "bottom"
        THEN /\ (prev_opposite_idx # 0 =>
                    ~(klines[current_idx].low >= klines[prev_opposite_idx].high))
             /\ (next_opposite_idx # 0 =>
                    ~(klines[current_idx].low >= klines[next_opposite_idx].high))
        ELSE IF res[current_idx].fractal_type = "top"
        THEN /\ (prev_opposite_idx # 0 =>
                    ~(klines[current_idx].high <= klines[prev_opposite_idx].low))
             /\ (next_opposite_idx # 0 =>
                    ~(klines[current_idx].high <= klines[next_opposite_idx].low))
        ELSE TRUE

\* `for i in range(1, len(fractal_indices))`, from list position k on
RECURSIVE RelationLoop(_, _, _, _, _)
RelationLoop(klines, res, fi, k, removed_count) ==
    IF k > Len(fi) THEN [df |-> res, removed_count |-> removed_count]
    ELSE IF res[fi[k]].fractal_type = "None"
    THEN RelationLoop(klines, res, fi, k + 1, removed_count)
    ELSE IF ~RelationValid(klines, res, fi, k)
    THEN RelationLoop(klines, ClearMark(res, fi[k]), fi, k + 1, removed_count + 1)
    ELSE RelationLoop(klines, res, fi, k + 1, removed_count)

\* validate_fractal_relationships up to the re-run of F2
RelationScan(df) ==
    IF Len(FractalIndices(df)) <= 1 THEN [df |-> df, removed_count |-> 0]
    ELSE RelationLoop(df, df, FractalIndices(df), 2, 0)

\* variant: the pass returns its input without scanning it
validate_without_scan(df) == df

\* variant: the scan is never followed by filter_consecutive_fractals
relation_scan_only(df) == RelationScan(df).df

validate_fractal_relationships(df) ==
    LET s == RelationScan(df)
    IN  IF s.removed_count > 0 THEN filter_consecutive_fractals(s.df) ELSE s.df

\* ---------------------------------------------------- F4 proximity filter
\* fractal_indices of filter_close_fractals: {'index', 'type'} of every row with
\* is_fractal, taken once before the scan and not refreshed afterwards
FractalList(df) ==
    LET fi == FractalIndices(df)
    IN  [k \in 1..Len(fi) |-> [index |-> fi[k], type |-> df[fi[k]].fractal_type]]

\* first list position in lo..hi holding the given type (0: none)
FirstOfType(fl, lo, hi, type) ==
    LET S == {q \in lo..hi : fl[q].type = type}
    IN  IF S = {} THEN 0 ELSE SetMin(S)

\* last list position in lo..hi holding the given type (0: none)
LastOfType(fl, lo, hi, type) ==
    LET S == {q \in lo..hi : fl[q].type = type}
    IN  IF S = {} THEN 0 ELSE SetMax(S)

\* case 1: current is a top, next_fractal a bottom
CloseTopBottom(klines, res, fl, k) ==
    LET An_idx == fl[k].index
        Bn_idx == fl[k + 1].index
        a1     == FirstOfType(fl, k + 2, Len(fl), "top")
    IN  IF a1 = 0 THEN [df |-> res, removed |-> 0]
        ELSE LET An1_idx == fl[a1].index
             IN  IF klines[An1_idx].high > klines[An_idx].high
                 THEN LET res1 == ClearMark(res, An_idx)
                          b1   == LastOfType(fl, 1, k - 1, "bottom")
                      IN  IF b1 = 0 THEN [df |-> res1, removed |-> 1]
                          ELSE IF klines[Bn_idx].low < klines[fl[b1].index].low
                          THEN [df |-> ClearMark(res1, fl[b1].index), removed |-> 2]
                          ELSE [df |-> ClearMark(res1, Bn_idx), removed |-> 2]
                 ELSE LET res1 == ClearMark(res, An1_idx)
                          b1   == FirstOfType(fl, k + 3, Len(fl), "bottom")
                      IN  IF b1 = 0 THEN [df |-> res1, removed |-> 1]
                          ELSE IF klines[Bn_idx].low < klines[fl[b1].index].low
                          THEN [df |-> ClearMark(res1, fl[b1].index), removed |-> 2]
                          ELSE [df |-> ClearMark(res1, Bn_idx), removed |-> 2]

\* variant: case 2 compares the highs of An and An+1, as case 1 does
CloseBottomTopByHigh(klines, res, fl, k) ==
    LET An_idx == fl[k].index
        Bn_idx == fl[k + 1].index
        a1     == FirstOfType(fl, k + 2, Len(fl), "bottom")
    IN  IF a1 = 0 THEN [df |-> res, removed |-> 0]
        ELSE LET An1_idx == fl[a1].index
             IN  IF klines[An1_idx].high > klines[An_idx].high
                 THEN LET res1 == ClearMark(res, An_idx)
                          b1   == LastOfType(fl, 1, k - 1, "top")
                      IN  IF b1 = 0 THEN [df |-> res1, removed |-> 1]
                          ELSE IF klines[Bn_idx].high > klines[fl[b1].index].high
                          THEN [df |-> ClearMark(res1, fl[b1].index), removed |-> 2]
                          ELSE [df |-> ClearMark(res1, Bn_idx), removed |-> 2]
                 ELSE LET res1 == ClearMark(res, An1_idx)
                          b1   == FirstOfType(fl, k + 3, Len(fl), "top")
                      IN  IF b1 = 0 THEN [df |-> res1, removed |-> 1]
                          ELSE IF klines[Bn_idx].high > klines[fl[b1].index].high
                          THEN [df |-> ClearMark(res1, fl[b1].index), removed |-> 2]
                          ELSE [df |-> ClearMark(res1, Bn_idx), removed |-> 2]

\* case 2: current is a bottom, next_fractal a top
CloseBottomTop(klines, res, fl, k) ==
    LET An_idx == fl[k].index
        Bn_idx == fl[k + 1].index
        a1     == FirstOfType(fl, k + 2, Len(fl), "bottom")
    IN  IF a1 = 0 THEN [df |-> res, removed |-> 0]
        ELSE LET An1_idx == fl[a1].index
             IN  IF klines[An1_idx].low < klines[An_idx].low
                 THEN LET res1 == ClearMark(res, An_idx)
                          b1   == LastOfType(fl, 1, k - 1, "top")
                      IN  IF b1 = 0 THEN [df |-> res1, removed |-> 1]
                          ELSE IF klines[Bn_idx].high > klines[fl[b1].index].high
                          THEN [df |-> ClearMark(res1, fl[b1].index), removed |-> 2]
                          ELSE [df |-> ClearMark(res1, Bn_idx), removed |-> 2]
                 ELSE LET res1 == ClearMark(res, An1_idx)
                          b1   == FirstOfType(fl, k + 3, Len(fl), "top")
                      IN  IF b1 = 0 THEN [df |-> res1, removed |-> 1]
                          ELSE IF klines[Bn_idx].high > klines[fl[b1].index].high
                          THEN [df |-> ClearMark(res1, fl[b1].index), removed |-> 2]
                          ELSE [df |-> ClearMark(res1, Bn_idx), removed |-> 2]

\* `for i in range(len(fractal_indices) - 1)`, from list position k on
RECURSIVE CloseLoop(_, _, _, _, _, _, _)
CloseLoop(klines, res, fl, k, min_gap, removed_count, processed_pairs) ==
    IF k > Len(fl) - 1 THEN [df |-> res, removed_count |-> removed_count]
    ELSE LET current      == fl[k]
             next_fractal == fl[k + 1]
             pair_key     == <<current.index, next_fractal.index>>
         IN  IF pair_key \in processed_pairs
             THEN CloseLoop(klines, res, fl, k + 1, min_gap, removed_count, processed_pairs)
             ELSE IF next_fractal.index - current.index >= min_gap
             THEN CloseLoop(klines, res, fl, k + 1, min_gap, removed_count, processed_pairs)
             ELSE LET r == IF current.type = "top" /\ next_fractal.type = "bottom"
                           THEN CloseTopBottom(klines, res, fl, k)
                           ELSE IF current.type = "bottom" /\ next_fractal.type = "top"
                           THEN CloseBottomTop(klines, res, fl, k)
                           ELSE [df |-> res, removed |-> 0]
                  IN  CloseLoop(klines, r.df, fl, k + 1, min_gap,
                                removed_count + r.removed, processed_pairs \cup {pair_key})

\* filter_close_fractals up to the re-run of F2
CloseScan(df, min_gap) ==
    IF Len(FractalList(df)) <= 2 THEN [df |-> df, removed_count |-> 0]
    ELSE CloseLoop(df, df, FractalList(df), 1, min_gap, 0, {})

\* the list positions read while the pair at positions k, k + 1 is resolved:
\* current and next_fractal, An+1 when there is one, and the Bn-1 / Bn+1 found
\* after it
CloseMarksRead(klines, fl, k) ==
    LET own   == fl[k].type
        other == fl[k + 1].type
        a1    == FirstOfType(fl, k + 2, Len(fl), own)
        later == IF own = "top"
                 THEN klines[fl[a1].index].high > klines[fl[k].index].high
                 ELSE klines[fl[a1].index].low < klines[fl[k].index].low
        b1    == IF a1 = 0 THEN 0
                 ELSE IF later THEN LastOfType(fl, 1, k - 1, other)
                 ELSE FirstOfType(fl, k + 3, Len(fl), other)
    IN  [A |-> k, B |-> k + 1, A1 |-> a1, B1 |-> b1]

\* the resolutions of the scan, from list position k on, that read a mark the
\* scan had cleared before: <<k, role, row>>. A pair without An+1 clears nothing
\* and is not a resolution.
RECURSIVE ClearedMarksRead(_, _, _, _, _)
ClearedMarksRead(klines, res, fl, k, min_gap) ==
    IF k > Len(fl) - 1 THEN {}
    ELSE LET current      == fl[k]
             next_fractal == fl[k + 1]
         IN  IF next_fractal.index - current.index >= min_gap
                \/ current.type = next_fractal.type
             THEN ClearedMarksRead(klines, res, fl, k + 1, min_gap)
             ELSE LET read == CloseMarksRead(klines, fl, k)
                      r    == IF current.type = "top"
                              THEN CloseTopBottom(klines, res, fl, k)
                              ELSE CloseBottomTop(klines, res, fl, k)
                  IN  {<<k, role, fl[read[role]].index>> :
                          role \in {ro \in {"A", "B", "A1", "B1"} :
                                       /\ read.A1 # 0
                                       /\ read[ro] # 0
                                       /\ ~res[fl[read[ro]].index].is_fractal}}
                      \cup ClearedMarksRead(klines, r.df, fl, k + 1, min_gap)

\* the reads of cleared marks made by one call of filter_close_fractals
StaleReads(df, min_gap) ==
    IF Len(FractalList(df)) <= 2 THEN {}
    ELSE ClearedMarksRead(df, df, FractalList(df), 1, min_gap)

filter_close_fractals(df, min_gap) ==
    LET s == CloseScan(df, min_gap)
    IN  IF s.removed_count > 0 THEN filter_consecutive_fractals(s.df) ELSE s.df

\* ------------------------------------------------------ the filter chain
\* ---- the chain as a whole
\* the six passes of process_fractals applied to a marked frame
filter_chain(df) ==
    LET extreme_filtered_df      == filter_fractals_by_extremes(df, Window)
        consecutive_filtered_df  == filter_consecutive_fractals(extreme_filtered_df)
        relationship_filtered_df1 == validate_fractal_relationships(consecutive_filtered_df)
        final_df0                == filter_close_fractals(relationship_filtered_df1, MinGap)
        relationship_filtered_df == validate_fractal_relationships(final_df0)
    IN  filter_close_fractals(relationship_filtered_df, MinGap)

\* ------------------------------------------------------- stroke builder
\* The attribute self.segments: __init__ does not create it (hasattr is False)
\* and identify_segments assigns it on its last line only.
NoSegments == [hasattr |-> FALSE, value |-> <<>>]

Saved(segs) == [hasattr |-> TRUE, value |-> segs]

\* `fractals` of identify_segments: the marked rows in row order
SegmentFractals(df) ==
    LET fi == Ascending({p \in 1..Len(df) :
                            df[p].is_fractal /\ df[p].fractal_type # "None"})
    IN  [k \in 1..Len(fi) |->
            [index    |-> fi[k],
             datetime |-> df[fi[k]].datetime,
             type     |-> df[fi[k]].fractal_type,
             high     |-> df[fi[k]].high,
             low      |-> df[fi[k]].low]]

\* variant of the loop below that appends every mark, whatever its type
RECURSIVE AlternateLoopKeepAll(_, _, _, _)
AlternateLoopKeepAll(fractals, k, filtered_fractals, expected_type) ==
    IF k > Len(fractals) THEN filtered_fractals
    ELSE AlternateLoopKeepAll(fractals, k + 1, Append(filtered_fractals, fractals[k]),
                              expected_type)

\* the loop `for i in range(1, len(fractals))`: a mark of the expected type is
\* appended and the expected type flips, any other mark is skipped
RECURSIVE AlternateLoop(_, _, _, _)
AlternateLoop(fractals, k, filtered_fractals, expected_type) ==
    IF k > Len(fractals) THEN filtered_fractals
    ELSE IF fractals[k].type = expected_type
    THEN AlternateLoop(fractals, k + 1, Append(filtered_fractals, fractals[k]),
                       IF expected_type = "bottom" THEN "top" ELSE "bottom")
    ELSE AlternateLoop(fractals, k + 1, filtered_fractals, expected_type)

\* filtered_fractals, for a list of at least one mark
FilteredFractals(fractals) ==
    AlternateLoop(fractals, 2, <<fractals[1]>>,
                  IF fractals[1].type = "top" THEN "bottom" ELSE "top")

\* variant of the dict below that prices both ends at the bar's high
SegmentPricedAtHigh(filtered_fractals, m) ==
    LET start_fractal == filtered_fractals[m]
        end_fractal   == filtered_fractals[m + 1]
    IN  [id             |-> m - 1,
         start_idx      |-> start_fractal.index,
         end_idx        |-> end_fractal.index,
         start_datetime |-> start_fractal.datetime,
         end_datetime   |-> end_fractal.datetime,
         start_type     |-> start_fractal.type,
         end_type       |-> end_fractal.type,
         start_price    |-> start_fractal.high,
         end_price      |-> end_fractal.high,
         direction      |-> IF start_fractal.type = "top" THEN "down" ELSE "up"]

\* the dict built for filtered_fractals[m], filtered_fractals[m + 1]; 'id' is the
\* source's value (counted from 0), the row indices are positions
Segment(filtered_fractals, m) ==
    LET start_fractal == filtered_fractals[m]
        end_fractal   == filtered_fractals[m + 1]
    IN  [id             |-> m - 1,
         start_idx      |-> start_fractal.index,
         end_idx        |-> end_fractal.index,
         start_datetime |-> start_fractal.datetime,
         end_datetime   |-> end_fractal.datetime,
         start_type     |-> start_fractal.type,
         end_type       |-> end_fractal.type,
         start_price    |-> IF start_fractal.type = "top"
                            THEN start_fractal.high ELSE start_fractal.low,
         end_price      |-> IF end_fractal.type = "top"
                            THEN end_fractal.high ELSE end_fractal.low,
         direction      |-> IF start_fractal.type = "top" THEN "down" ELSE "up"]

\* the list `segments`
SegmentList(filtered_fractals) ==
    [m \in 1..(Len(filtered_fractals) - 1) |-> Segment(filtered_fractals, m)]

\* the six assignments result_df.loc[idx, ...] made for one end of a segment
MarkSegmentRow(row, segment) ==
    [row EXCEPT !.segment_id = segment.id,
                !.is_segment = TRUE,
                !.segment_start_idx = segment.start_idx,
                !.segment_end_idx = segment.end_idx,
                !.segment_start_type = segment.start_type,
                !.segment_end_type = segment.end_type]

\* the loop `for segment in segments`: start row first, end row second
RECURSIVE MarkSegments(_, _, _)
MarkSegments(res, segs, m) ==
    IF m > Len(segs) THEN res
    ELSE LET r1 == [res EXCEPT ![segs[m].start_idx] = MarkSegmentRow(@, segs[m])]
             r2 == [r1 EXCEPT ![segs[m].end_idx] = MarkSegmentRow(@, segs[m])]
         IN  MarkSegments(r2, segs, m + 1)

\* identify_segments on a non-empty frame that has the column is_fractal: the
\* returned frame, the local list of segments, and whether self.segments is set
identify_segments(df) ==
    LET fractals == SegmentFractals(df)
    IN  IF Len(fractals) < 2
        THEN [df |-> [p \in 1..Len(df) |->
                        df[p] @@ [segment_id |-> "None", is_segment |-> FALSE]],
              segments |-> <<>>,
              saved |-> FALSE]
        ELSE LET segs == SegmentList(FilteredFractals(fractals))
                 cols == [segment_id |-> "None", is_segment |-> FALSE,
                          segment_start_idx |-> "None", segment_end_idx |-> "None",
                          segment_start_type |-> "None", segment_end_type |-> "None"]
             IN  [df |-> MarkSegments([p \in 1..Len(df) |-> df[p] @@ cols], segs, 1),
                  segments |-> segs,
                  saved |-> TRUE]

\* ------------------------------------------------------------------ state
Init ==
    /\ pc = "trim"
    /\ \E pairs \in BoundedInputs \cup ScenarioInputs : original_data = FrameOf(pairs)
    /\ initial_direction = "None"
    /\ trimmed_data = <<>>
    /\ i = 0
    /\ j = 0
    /\ chanlun_group = <<>>
    /\ chanlun_klines = <<>>
    /\ chanlun_data = <<>>
    /\ fractals_data = <<>>
    /\ before = <<>>
    /\ scanned = <<>>
    /\ last_pass = "None"
    /\ strokes = <<>>
    /\ segments = NoSegments
    /\ segments_data = <<>>
    /\ label0 = 0
    /\ run = 1
    /\ first_run = "None"
    /\ code = <<>>
    /\ normalized = <<>>

\* process_klines, first step: trim_data_by_extremes(df)
Trim ==
    /\ pc = "trim"
    /\ LET r == trim_data_by_extremes(original_data, label0)
       IN  /\ trimmed_data' = r.df
           /\ initial_direction' = r.initial_direction
    /\ pc' = "merge"
    /\ UNCHANGED <<original_data, i, j, chanlun_group, chanlun_klines, chanlun_data,
                   fractals_data, before, scanned, last_pass,
                   stroke_vars, session_vars, symbol_vars>>

\* merge_klines: fewer than two rows, the frame is returned as it is
MergeShort ==
    /\ pc = "merge"
    /\ Len(trimmed_data) < 2
    /\ chanlun_data' = trimmed_data
    /\ pc' = "identify"
    /\ UNCHANGED <<original_data, initial_direction, trimmed_data, i, j, chanlun_group,
                   chanlun_klines, fractals_data, before, scanned, last_pass,
                   stroke_vars, session_vars, symbol_vars>>

\* merge_klines: chanlun_klines = [], i = 0
MergeBegin ==
    /\ pc = "merge"
    /\ Len(trimmed_data) >= 2
    /\ chanlun_klines' = <<>>
    /\ i' = 1
    /\ pc' = "outer"
    /\ UNCHANGED <<original_data, initial_direction, trimmed_data, j, chanlun_group,
                   chanlun_data, fractals_data, before, scanned, last_pass,
                   stroke_vars, session_vars, symbol_vars>>

\* while i < len(df): a new group starts from df.iloc[i]
MergeOuter ==
    /\ pc = "outer"
    /\ i <= Len(trimmed_data)
    /\ chanlun_group' = <<trimmed_data[i]>>
    /\ j' = i + 1
    /\ pc' = "inner"
    /\ UNCHANGED <<original_data, initial_direction, trimmed_data, i, chanlun_klines,
                   chanlun_data, fractals_data, before, scanned, last_pass,
                   stroke_vars, session_vars, symbol_vars>>

\* while j < len(df), has_inclusion: the next row is merged into the group
MergeAbsorb ==
    /\ pc = "inner"
    /\ j <= Len(trimmed_data)
    /\ check_inclusion(chanlun_group[Len(chanlun_group)], trimmed_data[j]).has_inclusion
    /\ chanlun_group' =
         [chanlun_group EXCEPT ![Len(chanlun_group)] =
            merged_kline(chanlun_group, trimmed_data[j], chanlun_klines, initial_direction)]
    /\ j' = j + 1
    /\ UNCHANGED <<pc, original_data, initial_direction, trimmed_data, i, chanlun_klines,
                   chanlun_data, fractals_data, before, scanned, last_pass,
                   stroke_vars, session_vars, symbol_vars>>

\* the inner loop ends (break, or j = len(df)): the group is appended, i = j
MergeEmit ==
    /\ pc = "inner"
    /\ IF j <= Len(trimmed_data)
       THEN ~check_inclusion(chanlun_group[Len(chanlun_group)], trimmed_data[j]).has_inclusion
       ELSE TRUE
    /\ chanlun_klines' =
         Append(chanlun_klines, chanlun_kline(chanlun_group, chanlun_klines, initial_direction))
    /\ i' = j
    /\ pc' = "outer"
    /\ UNCHANGED <<original_data, initial_direction, trimmed_data, j, chanlun_group,
                   chanlun_data, fractals_data, before, scanned, last_pass,
                   stroke_vars, session_vars, symbol_vars>>

\* the outer loop ends: chanlun_df = pd.DataFrame(chanlun_klines)
MergeEnd ==
    /\ pc = "outer"
    /\ i > Len(trimmed_data)
    /\ chanlun_data' = chanlun_klines
    /\ pc' = "identify"
    /\ UNCHANGED <<original_data, initial_direction, trimmed_data, i, j, chanlun_group,
                   chanlun_klines, fractals_data, before, scanned, last_pass,
                   stroke_vars, session_vars, symbol_vars>>

\* the frame reaching process_fractals carries the labels 0..n-1: it was built by
\* pd.DataFrame(chanlun_klines), or is the untrimmed input returned by MergeShort
LabelsFromZero == Len(trimmed_data) >= 2 \/ Len(trimmed_data) = Len(original_data)

\* process_fractals: identify_fractals(df)
Identify ==
    /\ pc = "identify"
    /\ LabelsFromZero
    /\ fractals_data' = identify_fractals(chanlun_data, initial_direction)
    /\ pc' = "F1"
    /\ before' = <<>>
    /\ scanned' = <<>>
    /\ last_pass' = "identify"
    /\ UNCHANGED <<original_data, initial_direction, trimmed_data, i, j, chanlun_group,
                   chanlun_klines, chanlun_data,
                   stroke_vars, session_vars, symbol_vars>>

\* process_fractals on the one-row frame MergeShort returned with the label the
\* trimmer left on it (not 0): the passes address rows by 0..n-1, not by label
IdentifyOffLabels ==
    /\ pc = "identify"
    /\ ~LabelsFromZero
    /\ pc' = "labels_off"
    /\ UNCHANGED <<original_data, initial_direction, trimmed_data, i, j, chanlun_group,
                   chanlun_klines, chanlun_data, fractals_data, before, scanned, last_pass,
                   stroke_vars, session_vars, symbol_vars>>

\* one pass of process_fractals: `at` is the driver's position, `to` the next one
Pass(at, to, name, scan, result) ==
    /\ pc = at
    /\ before' = fractals_data
    /\ scanned' = scan
    /\ fractals_data' = result
    /\ last_pass' = name
    /\ pc' = to
    /\ UNCHANGED <<original_data, initial_direction, trimmed_data, i, j, chanlun_group,
                   chanlun_klines, chanlun_data,
                   stroke_vars, session_vars, symbol_vars>>

\* extreme_filtered_df = self.filter_fractals_by_extremes(fractals_df)
ExtremeFilter ==
    Pass("F1", "F2", "F1",
         filter_fractals_by_extremes(fractals_data, Window),
         filter_fractals_by_extremes(fractals_data, Window))

\* consecutive_filtered_df = self.filter_consecutive_fractals(extreme_filtered_df)
ConsecutiveFilter ==
    Pass("F2", "F3", "F2",
         filter_consecutive_fractals(fractals_data),
         filter_consecutive_fractals(fractals_data))

\* relationship_filtered_df1 = self.validate_fractal_relationships(consecutive_filtered_df)
RelationFilter1 ==
    Pass("F3", "F4", "F3",
         RelationScan(fractals_data).df,
         validate_fractal_relationships(fractals_data))

\* final_df0 = self.filter_close_fractals(relationship_filtered_df1)
CloseFilter1 ==
    Pass("F4", "F3b", "F4",
         CloseScan(fractals_data, MinGap).df,
         filter_close_fractals(fractals_data, MinGap))

\* relationship_filtered_df = self.validate_fractal_relationships(final_df0)
RelationFilter2 ==
    Pass("F3b", "F4b", "F3",
         RelationScan(fractals_data).df,
         validate_fractal_relationships(fractals_data))

\* final_df = self.filter_close_fractals(relationship_filtered_df)
CloseFilter2 ==
    Pass("F4b", "segments", "F4",
         CloseScan(fractals_data, MinGap).df,
         filter_close_fractals(fractals_data, MinGap))

\* segments_df = self.identify_segments(fractals_df)
IdentifySegments ==
    /\ pc = "segments"
    /\ LET r == identify_segments(fractals_data)
       IN  /\ segments_data' = r.df
           /\ strokes' = r.segments
           /\ segments' = IF r.saved THEN Saved(r.segments) ELSE segments
    /\ pc' = "done"
    /\ UNCHANGED <<original_data, initial_direction, trimmed_data, i, j, chanlun_group,
                   chanlun_klines, chanlun_data, fractals_data, before, scanned,
                   last_pass, session_vars, symbol_vars>>

Next ==
    \/ Trim
    \/ MergeShort
    \/ MergeBegin
    \/ MergeOuter
    \/ MergeAbsorb
    \/ MergeEmit
    \/ MergeEnd
    \/ Identify
    \/ IdentifyOffLabels
    \/ ExtremeFilter
    \/ ConsecutiveFilter
    \/ RelationFilter1
    \/ CloseFilter1
    \/ RelationFilter2
    \/ CloseFilter2
    \/ IdentifySegments

Spec == Init /\ [][Next]_vars

\* ------------------------------------------------- the passes called directly
\* A structural frame handed to the public methods without the trimmer and the
\* merger before them: rows as pd.DataFrame(chanlun_klines) holds them.
StructRow(p, h, l) == RawRow(p, h, l) @@ [direction |-> "up"]

StructFrames ==
    {[p \in 1..Len(pairs) |-> StructRow(p, pairs[p][1], pairs[p][2])] :
        pairs \in UNION {[1..n -> PricePairs] : n \in 1..FLen}}

\* A frame of n unmarked rows carrying the given marks: a function from some
\* positions to <<type, high, low>>; the other rows span filler_high..filler_low.
MarkedFrame(n, marks, filler_high, filler_low) ==
    [p \in 1..n |->
        IF p \in DOMAIN marks
        THEN StructRow(p, marks[p][2], marks[p][3])
                 @@ [fractal_type |-> marks[p][1], is_fractal |-> TRUE]
        ELSE StructRow(p, filler_high, filler_low)
                 @@ [fractal_type |-> "None", is_fractal |-> FALSE]]

\* spec scenario E: top@10 (h=100), bottom@12 (l=80), top@14 (h=105), bottom@30 (l=60)
ScenarioE ==
    MarkedFrame(32,
        (11 :> <<"top", 100, 90>>) @@ (13 :> <<"bottom", 95, 80>>) @@
        (15 :> <<"top", 105, 92>>) @@ (31 :> <<"bottom", 70, 60>>),
        90, 85)

\* spec scenario F: bottom@5 (l=50), top@7 (h=52), bottom@9 (l=51)
ScenarioF ==
    MarkedFrame(11,
        (6 :> <<"bottom", 51, 50>>) @@ (8 :> <<"top", 52, 51>>) @@
        (10 :> <<"bottom", 52, 51>>),
        52, 51)

\* spec scenario D: top@2, top@5, bottom@8, top@11
ScenarioD ==
    MarkedFrame(13,
        (3 :> <<"top", 9, 7>>) @@ (6 :> <<"top", 8, 6>>) @@
        (9 :> <<"bottom", 5, 3>>) @@ (12 :> <<"top", 9, 6>>),
        7, 5)

\* three tops in a row (two of them tied), then bottoms: top@1, top@3, top@5,
\* bottom@7, bottom@8
ScenarioRuns ==
    MarkedFrame(10,
        (2 :> <<"top", 8, 6>>) @@ (4 :> <<"top", 9, 6>>) @@ (6 :> <<"top", 9, 7>>) @@
        (8 :> <<"bottom", 6, 4>>) @@ (9 :> <<"bottom", 6, 4>>),
        7, 5)

MarkedScenarios == {ScenarioE, ScenarioF, ScenarioD, ScenarioRuns}

\* every frame of at most FLen rows with any marks on it
MarkedFrames ==
    {[p \in 1..Len(rows) |->
         StructRow(p, rows[p][1][1], rows[p][1][2])
             @@ [fractal_type |-> rows[p][2], is_fractal |-> (rows[p][2] # "None")]] :
        rows \in UNION {[1..n -> PricePairs \X {"None", "top", "bottom"}] : n \in 1..FLen}}

InitDirect ==
    /\ original_data = <<>>
    /\ trimmed_data = <<>>
    /\ i = 0
    /\ j = 0
    /\ chanlun_group = <<>>
    /\ chanlun_klines = <<>>
    /\ before = <<>>
    /\ scanned = <<>>
    /\ last_pass = "None"
    /\ strokes = <<>>
    /\ segments = NoSegments
    /\ segments_data = <<>>
    /\ label0 = 0
    /\ run = 1
    /\ first_run = "None"
    /\ code = <<>>
    /\ normalized = <<>>
    /\ \/ /\ pc = "given"
          /\ chanlun_data \in StructFrames
          /\ initial_direction \in {"up", "down", "None"}
          /\ fractals_data = <<>>
       \/ /\ pc = "marked"
          /\ chanlun_data = <<>>
          /\ initial_direction = "None"
          /\ fractals_data \in MarkedScenarios \cup MarkedFrames

\* processor.identify_fractals(df)
DirectIdentify ==
    /\ pc = "given"
    /\ fractals_data' = identify_fractals(chanlun_data, initial_direction)
    /\ last_pass' = "identify"
    /\ pc' = "marked"
    /\ UNCHANGED <<original_data, initial_direction, trimmed_data, i, j, chanlun_group,
                   chanlun_klines, chanlun_data, before, scanned,
                   stroke_vars, session_vars, symbol_vars>>

\* processor.filter_fractals_by_extremes(df)
DirectExtremeFilter ==
    Pass("marked", "marked", "F1",
         filter_fractals_by_extremes(fractals_data, Window),
         filter_fractals_by_extremes(fractals_data, Window))

\* processor.filter_consecutive_fractals(df)
DirectConsecutiveFilter ==
    Pass("marked", "marked", "F2",
         filter_consecutive_fractals(fractals_data),
         filter_consecutive_fractals(fractals_data))

\* processor.validate_fractal_relationships(df)
DirectRelationFilter ==
    Pass("marked", "marked", "F3",
         RelationScan(fractals_data).df,
         validate_fractal_relationships(fractals_data))

\* processor.filter_close_fractals(df)
DirectCloseFilter ==
    Pass("marked", "marked", "F4",
         CloseScan(fractals_data, MinGap).df,
         filter_close_fractals(fractals_data, MinGap))

\* processor.identify_segments(df)
DirectIdentifySegments ==
    /\ pc = "marked"
    /\ LET r == identify_segments(fractals_data)
       IN  /\ segments_data' = r.df
           /\ strokes' = r.segments
           /\ segments' = IF r.saved THEN Saved(r.segments) ELSE segments
    /\ pc' = "strokes"
    /\ UNCHANGED <<original_data, initial_direction, trimmed_data, i, j, chanlun_group,
                   chanlun_klines, chanlun_data, fractals_data, before, scanned,
                   last_pass, session_vars, symbol_vars>>

NextDirect ==
    \/ DirectIdentify
    \/ DirectIdentifySegments
    \/ DirectExtremeFilter
    \/ DirectConsecutiveFilter
    \/ DirectRelationFilter
    \/ DirectCloseFilter

SpecDirect == InitDirect /\ [][NextDirect]_vars


\* ================================================= calls on one instance
SessionLen == 3
MaxRuns == 2

\* the frame without the column f
DropColumn(df, f) ==
    [p \in 1..Len(df) |-> [c \in (DOMAIN df[p]) \ {f} |-> df[p][c]]]

\* df.columns (a frame without rows: pd.DataFrame(), no columns)
Columns(df) == IF Len(df) = 0 THEN {} ELSE DOMAIN df[1]

\* Frames handed to process_klines: no rows, up to SessionLen valid rows, and
\* frames of one or two rows that lack one of the columns the trimmer requires
ValidInputs == {FrameOf(pairs) : pairs \in UNION {[1..n -> PricePairs] : n \in 1..SessionLen}}

LackingInputs ==
    {DropColumn(FrameOf(pairs), f) :
        pairs \in UNION {[1..n -> PricePairs] : n \in 1..2},
        f \in {"datetime", "high", "low"}}

SessionInputs == {<<>>} \cup ValidInputs \cup LackingInputs

\* the inner `while j < len(df)` of merge_klines: the group and the j it stops at
RECURSIVE MergeInner(_, _, _, _, _)
MergeInner(df, group, jj, klines, seed) ==
    IF jj <= Len(df) /\ check_inclusion(group[Len(group)], df[jj]).has_inclusion
    THEN MergeInner(df,
                    [group EXCEPT ![Len(group)] = merged_kline(group, df[jj], klines, seed)],
                    jj + 1, klines, seed)
    ELSE [group |-> group, j |-> jj]

\* the outer `while i < len(df)` of merge_klines
RECURSIVE MergeLoop(_, _, _, _)
MergeLoop(df, ii, klines, seed) ==
    IF ii > Len(df) THEN klines
    ELSE LET r == MergeInner(df, <<df[ii]>>, ii + 1, klines, seed)
         IN  MergeLoop(df, r.j, Append(klines, chanlun_kline(r.group, klines, seed)), seed)

\* merge_klines(df): the frame and the first label of its index (a copy keeps the
\* labels of df, pd.DataFrame(chanlun_klines) is labelled from 0)
merge_klines(df, first_label, seed) ==
    IF Len(df) < 2
    THEN [df |-> df, first_label |-> first_label]
    ELSE IF ~({"datetime", "open", "high", "low", "close"} \subseteq Columns(df))
    THEN [df |-> df, first_label |-> first_label]
    ELSE [df |-> MergeLoop(df, 1, <<>>, seed), first_label |-> 0]

\* trim_data_by_extremes(df) with its two early returns; `seed` is the value of
\* self.initial_direction before the call
TrimStep(df, first_label, seed) ==
    IF Len(df) = 0
    THEN [df |-> <<>>, first_label |-> 0, initial_direction |-> seed]
    ELSE IF ~({"datetime", "high", "low"} \subseteq Columns(df))
    THEN [df |-> df, first_label |-> first_label, initial_direction |-> seed]
    ELSE LET r == trim_data_by_extremes(df, first_label)
         IN  [df |-> r.df, first_label |-> first_label + r.dropped,
              initial_direction |-> r.initial_direction]

\* identify_fractals on a frame that lacks datetime, high or low raises KeyError
\* when it reads the missing key: for the first bar if a seed is set, in
\* check_top_fractal / check_bottom_fractal for a bar with two neighbours, or when
\* it records a mark
IdentifyRaises(df, seed) ==
    LET cols == Columns(df)
    IN  \/ seed # "None"
        \/ /\ Len(df) >= 3
           /\ \/ "high" \notin cols
              \/ "low" \notin cols
              \/ \E p \in 2..(Len(df) - 1) :
                    check_top_fractal(df, p) \/ check_bottom_fractal(df, p)

\* process_fractals(df): "KeyError" (fractals_df['is_fractal'] on the frame
\* without columns that identify_fractals returns for an empty input, or a missing
\* key in identify_fractals), "labels_off" (a one-row frame whose label is not 0:
\* the passes address rows by 0..n-1), or "returned" with the frame
ProcessFractals(df, first_label, seed) ==
    IF Len(df) = 0
    THEN [outcome |-> "KeyError", df |-> <<>>]
    ELSE IF ~({"datetime", "high", "low"} \subseteq Columns(df))
    THEN IF IdentifyRaises(df, seed)
         THEN [outcome |-> "KeyError", df |-> <<>>]
         ELSE [outcome |-> "returned",
               df |-> [p \in 1..Len(df) |->
                          df[p] @@ [fractal_type |-> "None", is_fractal |-> FALSE]]]
    ELSE IF first_label # 0
    THEN [outcome |-> "labels_off", df |-> <<>>]
    ELSE [outcome |-> "returned", df |-> filter_chain(identify_fractals(df, seed))]

\* the attributes after a call whose steps gave t (trimmer), m (merger),
\* f (process_fractals) and g (identify_segments, when f returned a frame)
AfterCall(df, self, t, m, f, g) ==
    [outcome           |-> f.outcome,
     original_data     |-> df,
     trimmed_data      |-> t.df,
     initial_direction |-> t.initial_direction,
     chanlun_data      |-> m.df,
     fractals_data     |-> IF f.outcome = "returned" THEN f.df ELSE self.fractals_data,
     segments_data     |-> IF f.outcome = "returned" THEN g.df ELSE self.segments_data,
     strokes           |-> IF f.outcome = "returned" THEN g.segments ELSE <<>>,
     segments          |-> IF f.outcome = "returned" /\ g.saved
                           THEN Saved(g.segments) ELSE self.segments]

\* process_klines from its fourth step on
AfterFractals(df, self, t, m, f) ==
    AfterCall(df, self, t, m, f, identify_segments(f.df))

\* process_klines from its third step on
AfterMerge(df, self, t, m) ==
    AfterFractals(df, self, t, m, ProcessFractals(m.df, m.first_label, t.initial_direction))

\* process_klines from its second step on
AfterTrim(df, self, t) ==
    AfterMerge(df, self, t, merge_klines(t.df, t.first_label, t.initial_direction))

\* process_klines(df) on an instance whose attributes are `self`: how the call
\* ends and the attributes after it
process_klines(df, first_label, self) ==
    AfterTrim(df, self, TrimStep(df, first_label, self.initial_direction))

\* the attributes of the instance
Self ==
    [initial_direction |-> initial_direction, fractals_data |-> fractals_data,
     segments_data |-> segments_data, segments |-> segments]

\* ChanlunProcessor()
FreshSelf ==
    [initial_direction |-> "None", fractals_data |-> <<>>,
     segments_data |-> <<>>, segments |-> NoSegments]

InitSession ==
    /\ pc = "idle"
    /\ original_data = <<>>
    /\ trimmed_data = <<>>
    /\ chanlun_data = <<>>
    /\ fractals_data = <<>>
    /\ segments_data = <<>>
    /\ initial_direction = "None"
    /\ segments = NoSegments
    /\ strokes = <<>>
    /\ i = 0
    /\ j = 0
    /\ chanlun_group = <<>>
    /\ chanlun_klines = <<>>
    /\ before = <<>>
    /\ scanned = <<>>
    /\ last_pass = "None"
    /\ label0 = 0
    /\ run = 1
    /\ first_run = "None"
    /\ code = <<>>
    /\ normalized = <<>>

\* the call ends: the attributes it has assigned, and how it ended
Returned(r) ==
    /\ pc' = r.outcome
    /\ original_data' = r.original_data
    /\ trimmed_data' = r.trimmed_data
    /\ initial_direction' = r.initial_direction
    /\ chanlun_data' = r.chanlun_data
    /\ fractals_data' = r.fractals_data
    /\ segments_data' = r.segments_data
    /\ strokes' = r.strokes
    /\ segments' = r.segments

\* one call processor.process_klines(df), from its first line to its return or
\* to the exception that ends it; `earlier` is what the caller keeps of the call
\* before it
Call(df, first_label, how, earlier) ==
    /\ run <= MaxRuns
    /\ Returned(process_klines(df, first_label, Self))
    /\ label0' = first_label
    /\ last_pass' = how
    /\ first_run' = earlier
    /\ run' = run + 1
    /\ UNCHANGED <<i, j, chanlun_group, chanlun_klines, before, scanned, symbol_vars>>

\* processor.process_klines(df) on a frame of the caller
ProcessKlines ==
    \E df \in SessionInputs : Call(df, 0, "process_klines(df)", "None")

\* processor.process_klines(processor.trimmed_data) after a call that returned
ProcessTrimmed ==
    /\ pc = "returned"
    /\ {"datetime", "high", "low"} \subseteq Columns(original_data)
    /\ Call(trimmed_data, label0 + Len(original_data) - Len(trimmed_data),
            "process_klines(trimmed_data)",
            [original_data |-> original_data, trimmed_data |-> trimmed_data,
             chanlun_data |-> chanlun_data, initial_direction |-> initial_direction])

NextSession ==
    \/ ProcessKlines
    \/ ProcessTrimmed

SpecSession == InitSession /\ [][NextSession]_vars


\* get_processing_summary, the stroke statistics: the keys are added only when
\* the instance has the attribute segments, and are computed from it
get_processing_summary(self) ==
    IF self.segments.hasattr
    THEN [has_segment_count |-> TRUE,
          segment_count      |-> Len(self.segments.value),
          up_segment_count   |-> Cardinality({k \in 1..Len(self.segments.value) :
                                                self.segments.value[k].direction = "up"}),
          down_segment_count |-> Cardinality({k \in 1..Len(self.segments.value) :
                                                self.segments.value[k].direction = "down"})]
    ELSE [has_segment_count |-> FALSE, segment_count |-> 0,
          up_segment_count |-> 0, down_segment_count |-> 0]

\* ==================================================== symbol normalizer
\* A string is a sequence of characters. The characters that matter to
\* normalize_stock_code: digits, letters in both cases, the dot, the blank, and
\* U+212A KELVIN SIGN, an upper-case letter whose lower case is "k".
CodeLen == 3

KelvinSign == "U+212A"

Digits == {"0", "1", "2", "3", "4", "5", "6", "8", "9"}

Alphabet == Digits \cup {"a", "h", "H", "k", "K", KelvinSign, ".", " "}

\* str.upper() and str.lower() on one character
Letters == <<(<<"a", "A">>), <<"b", "B">>, <<"h", "H">>, <<"j", "J">>, <<"k", "K">>,
            <<"s", "S">>, <<"z", "Z">>>>

UpperChar(c) ==
    IF \E n \in 1..Len(Letters) : Letters[n][1] = c
    THEN Letters[CHOOSE n \in 1..Len(Letters) : Letters[n][1] = c][2]
    ELSE c

LowerChar(c) ==
    IF c = KelvinSign THEN "k"
    ELSE IF \E n \in 1..Len(Letters) : Letters[n][2] = c
    THEN Letters[CHOOSE n \in 1..Len(Letters) : Letters[n][2] = c][1]
    ELSE c

Upper(str) == [p \in 1..Len(str) |-> UpperChar(str[p])]

Lower(str) == [p \in 1..Len(str) |-> LowerChar(str[p])]

\* str.strip(): leading and trailing blanks removed
Strip(str) ==
    LET solid == {p \in 1..Len(str) : str[p] # " "}
    IN  IF solid = {} THEN <<>> ELSE SubSeq(str, SetMin(solid), SetMax(solid))

\* str.isdigit(): at least one character, and all of them digits
IsDigit(str) == Len(str) > 0 /\ \A p \in 1..Len(str) : str[p] \in Digits

\* sub in str
Contains(str, sub) ==
    \E p \in 1..(Len(str) - Len(sub) + 1) : SubSeq(str, p, p + Len(sub) - 1) = sub

\* normalize_stock_code(code)
normalize_stock_code(arg) ==
    LET c == Upper(Strip(arg))
    IN  IF IsDigit(c) /\ Len(c) <= 5 THEN c
        ELSE IF Contains(c, <<".">>) /\ Contains(Upper(c), <<"H", "K">>) THEN c
        ELSE IF Contains(c, <<".">>) THEN Lower(c)
        ELSE IF ~IsDigit(c) \/ Len(c) # 6 THEN c
        ELSE LET first_digit == c[1]
             IN  IF first_digit = "6" THEN <<"s", "h", ".">> \o c
                 ELSE IF first_digit \in {"0", "3"} THEN <<"s", "z", ".">> \o c
                 ELSE IF first_digit = "5" THEN <<"s", "h", ".">> \o c
                 ELSE IF first_digit = "1" /\ Len(c) = 6 /\ SubSeq(c, 1, 2) = <<"1", "5">>
                 THEN <<"s", "z", ".">> \o c
                 ELSE IF first_digit \in {"8", "9", "4"} THEN <<"b", "j", ".">> \o c
                 ELSE c

\* Arguments: up to CodeLen characters of the alphabet, followed by nothing, by
\* zeros that make a code of five, six or seven digits, or by a market suffix
CodeTails ==
    {<<>>, <<"0", "0", "0">>, <<"0", "0", "0", "0">>, <<"0", "0", "0", "0", "0">>,
     <<".", "H", "K">>, <<".", "h", "k">>, <<" ">>}

CodeInputs ==
    {head \o tail : head \in UNION {[1..n -> Alphabet] : n \in 0..CodeLen}, tail \in CodeTails}

InitSymbol ==
    /\ pc = "symbol"
    /\ code \in CodeInputs
    /\ normalized = <<>>
    /\ original_data = <<>>
    /\ trimmed_data = <<>>
    /\ chanlun_data = <<>>
    /\ fractals_data = <<>>
    /\ segments_data = <<>>
    /\ initial_direction = "None"
    /\ segments = NoSegments
    /\ strokes = <<>>
    /\ i = 0
    /\ j = 0
    /\ chanlun_group = <<>>
    /\ chanlun_klines = <<>>
    /\ before = <<>>
    /\ scanned = <<>>
    /\ last_pass = "None"
    /\ label0 = 0
    /\ run = 1
    /\ first_run = "None"

\* normalized = normalize_stock_code(code)
Normalize ==
    /\ pc = "symbol"
    /\ normalized' = normalize_stock_code(code)
    /\ pc' = "normalized"
    /\ UNCHANGED <<code, original_data, initial_direction, trimmed_data, i, j,
                   chanlun_group, chanlun_klines, chanlun_data, fractals_data, before,
                   scanned, last_pass, stroke_vars, session_vars>>

\* the returned string is normalized again
NormalizeAgain ==
    /\ pc = "normalized"
    /\ code' = normalized
    /\ normalized' = normalize_stock_code(normalized)
    /\ pc' = "renormalized"
    /\ UNCHANGED <<original_data, initial_direction, trimmed_data, i, j,
                   chanlun_group, chanlun_klines, chanlun_data, fractals_data, before,
                   scanned, last_pass, stroke_vars, session_vars>>

NextSymbol ==
    \/ Normalize
    \/ NormalizeAgain

SpecSymbol == InitSymbol /\ [][NextSymbol]_vars

\* =============================================================== properties
\* Bars A and B stand in containment (spec 4.2).
InContainment(a, b) ==
    \/ a.high >= b.high /\ a.low <= b.low
    \/ b.high >= a.high /\ b.low <= a.low

\* C1: after merge_klines on a trimmed input of at least two bars, no two adjacent
\* structural bars stand in containment.
C1_NoAdjacentContainment ==
    (pc = "identify" /\ Len(trimmed_data) >= 2) =>
        \A p \in 1..(Len(chanlun_data) - 1) :
            ~InContainment(chanlun_data[p], chanlun_data[p + 1])

\* p is the lowest position attaining the largest high of df
IsFirstMaxHigh(df, p) ==
    /\ \A q \in 1..Len(df) : df[q].high <= df[p].high
    /\ \A q \in 1..(p - 1) : df[q].high < df[p].high

\* p is the lowest position attaining the smallest low of df
IsFirstMinLow(df, p) ==
    /\ \A q \in 1..Len(df) : df[q].low >= df[p].low
    /\ \A q \in 1..(p - 1) : df[q].low > df[p].low

C3_AbsorbOrEmit ==
    [][ /\ pc = "inner" =>
            LET C   == chanlun_group[Len(chanlun_group)]
                dir == determine_direction(chanlun_klines, initial_direction)
            IN  IF j <= Len(trimmed_data) /\ InContainment(C, trimmed_data[j])
                THEN LET R  == trimmed_data[j]
                         C1 == chanlun_group'[Len(chanlun_group')]
                     IN  /\ pc' = "inner"
                         /\ j' = j + 1
                         /\ chanlun_klines' = chanlun_klines
                         /\ dir = "up" => /\ C1.high = Max2(C.high, R.high)
                                          /\ C1.low = Max2(C.low, R.low)
                         /\ dir = "down" => /\ C1.high = Min2(C.high, R.high)
                                            /\ C1.low = Min2(C.low, R.low)
                         /\ C1.close = R.close
                         /\ C1.volume = C.volume + R.volume
                         /\ C1.amount = C.amount + R.amount
                         /\ C1.open = trimmed_data[i].open
                         /\ C1.datetime = trimmed_data[i].datetime
                ELSE /\ pc' = "outer"
                     /\ i' = j
                     /\ chanlun_klines' = Append(chanlun_klines, C @@ [direction |-> dir])
        /\ (pc = "outer" /\ i <= Len(trimmed_data)) =>
               chanlun_group' = <<trimmed_data[i]>>
      ]_vars

\* two bars have been absorbed under direction down and the next one is not in
\* containment with the candidate
C3_Witness ==
    /\ pc = "inner"
    /\ j = i + 3
    /\ j <= Len(trimmed_data)
    /\ determine_direction(chanlun_klines, initial_direction) = "down"
    /\ ~InContainment(chanlun_group[Len(chanlun_group)], trimmed_data[j])

\* C4: bar 0 is a top iff the seed is down and a bottom iff it is up; an interior
\* bar is a top iff its high is strictly above both neighbours' highs and a bottom
\* iff its low is strictly below both neighbours' lows; the last bar is unmarked.
C4_IdentifierMarks ==
    (pc = "F1") =>
        LET S == chanlun_data
            M == fractals_data
            n == Len(S)
        IN  /\ (M[1].fractal_type = "top") <=> (initial_direction = "down")
            /\ (M[1].fractal_type = "bottom") <=> (initial_direction = "up")
            /\ \A p \in 2..(n - 1) :
                  /\ (M[p].fractal_type = "top") <=>
                        (S[p].high > S[p - 1].high /\ S[p].high > S[p + 1].high)
                  /\ (M[p].fractal_type = "bottom") <=>
                        (S[p].low < S[p - 1].low /\ S[p].low < S[p + 1].low)
            /\ n >= 2 => ~M[n].is_fractal

\* C5: after the whole filter chain a surviving top has the largest high, and a
\* surviving bottom the smallest low, of the rows max(0, i-4) .. min(n-1, i+4).
C5_WindowExtremum ==
    (pc = "segments") =>
        LET M == fractals_data
            n == Len(M)
        IN  \A p \in 1..n :
                M[p].is_fractal =>
                    \A q \in Max2(1, p - 4)..Min2(n, p + 4) :
                        /\ M[p].fractal_type = "top" => M[q].high <= M[p].high
                        /\ M[p].fractal_type = "bottom" => M[q].low >= M[p].low

\* a mark survives the chain although a row outside its window is more extreme
C5_Witness ==
    /\ pc = "segments"
    /\ \E p \in 1..Len(fractals_data) :
          /\ fractals_data[p].is_fractal
          /\ fractals_data[p].fractal_type = "bottom"
          /\ \E q \in 1..Len(fractals_data) : fractals_data[q].low < fractals_data[p].low

\* ---- F2
\* p and q are marks of one run of df: same type, no mark of the other type between
SameRun(df, p, q) ==
    /\ df[p].is_fractal
    /\ df[q].is_fractal
    /\ \A r \in Min2(p, q)..Max2(p, q) :
          df[r].is_fractal => df[r].fractal_type = df[p].fractal_type

\* p is the mark its run keeps: the most extreme one, the earliest among equals
RunKeeps(df, p) ==
    \A q \in 1..Len(df) :
        SameRun(df, p, q) =>
            IF df[p].fractal_type = "top"
            THEN df[q].high <= df[p].high /\ (q < p => df[q].high < df[p].high)
            ELSE df[q].low >= df[p].low /\ (q < p => df[q].low > df[p].low)

\* the row with its mark taken away
Unmarked(row) == [row EXCEPT !.fractal_type = "None", !.is_fractal = FALSE]

\* C6: F2 keeps in every maximal run of same-type marks exactly the most extreme
\* mark (earliest on ties), clears the others and touches nothing else.
C6_RunKeepsExtreme ==
    (last_pass = "F2") =>
        /\ Len(fractals_data) = Len(before)
        /\ \A p \in 1..Len(before) :
              fractals_data[p] =
                  IF before[p].is_fractal /\ ~RunKeeps(before, p)
                  THEN Unmarked(before[p])
                  ELSE before[p]

\* F2 has run on a run of three marks, two of them tied for the extreme
C6_Witness ==
    /\ last_pass = "F2"
    /\ \E p, q, r \in 1..Len(before) :
          /\ p < q /\ q < r
          /\ SameRun(before, p, r) /\ SameRun(before, p, q)
          /\ before[q].high = before[r].high
          /\ before[p].high < before[q].high
          /\ before[p].fractal_type = "top"
          /\ fractals_data[q].is_fractal
          /\ ~fractals_data[r].is_fractal

\* C7: F2 applied to its own output clears nothing.
C7_ConsecutiveIdempotent ==
    (last_pass = "F2") => filter_consecutive_fractals(fractals_data) = fractals_data

\* F2 has just cleared at least two marks
C7_Witness ==
    /\ last_pass = "F2"
    /\ \E p, q \in 1..Len(before) :
          /\ p # q
          /\ before[p].is_fractal /\ ~fractals_data[p].is_fractal
          /\ before[q].is_fractal /\ ~fractals_data[q].is_fractal

\* ---- F3
Opposite(t) == IF t = "top" THEN "bottom" ELSE "top"

\* nearest mark of the given type before p (0: none)
NearestBefore(df, p, type) ==
    LET S == {q \in 1..(p - 1) : df[q].is_fractal /\ df[q].fractal_type = type}
    IN  IF S = {} THEN 0 ELSE SetMax(S)

\* nearest mark of the given type after p (0: none)
NearestAfter(df, p, type) ==
    LET S == {q \in (p + 1)..Len(df) : df[q].is_fractal /\ df[q].fractal_type = type}
    IN  IF S = {} THEN 0 ELSE SetMin(S)

\* the mark at p fails against the opposite mark at q (0: no such mark)
Dominated(df, p, q) ==
    /\ q # 0
    /\ IF df[p].fractal_type = "bottom"
       THEN df[p].low >= df[q].high
       ELSE df[p].high <= df[q].low

\* C8: the scan of F3 leaves the first mark alone and clears any other mark exactly
\* when it fails against the nearest opposite mark before it (among the marks
\* still standing when it is examined) or after it.
C8_RelationScan ==
    (last_pass = "F3") =>
        LET marks == {p \in 1..Len(before) : before[p].is_fractal}
        IN  /\ Len(scanned) = Len(before)
            /\ \A p \in 1..Len(before) :
                  scanned[p] =
                      IF /\ p \in marks
                         /\ p # SetMin(marks)
                         /\ \/ Dominated(before, p,
                                   NearestBefore(scanned, p, Opposite(before[p].fractal_type)))
                            \/ Dominated(before, p,
                                   NearestAfter(before, p, Opposite(before[p].fractal_type)))
                      THEN Unmarked(before[p])
                      ELSE before[p]

\* the scan has cleared a bottom that is not the first mark and has no top standing
\* before it (it fails against the top after it), and has kept a later mark
C8_Witness ==
    /\ last_pass = "F3"
    /\ \E p, q \in 1..Len(before) :
          /\ before[p].fractal_type = "bottom"
          /\ ~scanned[p].is_fractal
          /\ NearestBefore(scanned, p, "top") = 0
          /\ q > p
          /\ scanned[q].is_fractal

\* ---- F4
\* the marks of df as (index counted from 0, type)
SurvivingMarks(df) ==
    {<<p - 1, df[p].fractal_type>> : p \in {q \in 1..Len(df) : df[q].is_fractal}}

\* C9 as stated: on scenario E, F4 with its F2 re-run leaves bottom@12, top@14 and
\* bottom@30.
C9_ScenarioE_Stated ==
    (last_pass = "F4" /\ before = ScenarioE) =>
        SurvivingMarks(fractals_data) =
            {<<12, "bottom">>, <<14, "top">>, <<30, "bottom">>}

\* C9 amended: on scenario E, F4 clears top@10 and, for the close pair (12, 14),
\* bottom@12 as well (bottom@30 is lower); top@14 and bottom@30 are left.
C9_ScenarioE_Amended ==
    (last_pass = "F4" /\ before = ScenarioE) =>
        /\ SurvivingMarks(scanned) = {<<14, "top">>, <<30, "bottom">>}
        /\ SurvivingMarks(fractals_data) = {<<14, "top">>, <<30, "bottom">>}

\* F4 has run on scenario E
C9_Witness ==
    /\ last_pass = "F4"
    /\ before = ScenarioE
    /\ fractals_data # before

\* ---- every pass
\* frame b holds the rows of frame a with some marks taken away
OnlyCleared(a, b) ==
    /\ Len(b) = Len(a)
    /\ \A p \in 1..Len(a) :
          /\ b[p].is_fractal => (a[p].is_fractal /\ b[p].fractal_type = a[p].fractal_type)
          /\ b[p].is_fractal <=> (b[p].fractal_type # "None")
          /\ b[p].high = a[p].high /\ b[p].low = a[p].low
          /\ b[p].open = a[p].open /\ b[p].close = a[p].close

\* C10: every pass of process_fractals only clears marks: the marks after it are
\* marks before it, of the type the identifier gave, is_fractal and fractal_type
\* go together, and high, low, open and close of every row stay the merger's.
C10_PassesOnlyClear ==
    (last_pass \in {"F1", "F2", "F3", "F4"}) =>
        /\ OnlyCleared(before, scanned)
        /\ OnlyCleared(scanned, fractals_data)
        /\ OnlyCleared(identify_fractals(chanlun_data, initial_direction), fractals_data)

\* the first F3 of the chain has cleared a mark in its scan, and its F2 re-run a
\* further one
C10_Witness ==
    /\ pc = "F4"
    /\ last_pass = "F3"
    /\ \E p \in 1..Len(before) : before[p].is_fractal /\ ~scanned[p].is_fractal
    /\ \E p \in 1..Len(before) : scanned[p].is_fractal /\ ~fractals_data[p].is_fractal

\* C11: the chain F1, F2, F3, F4, F3, F4 applied to the marks a first application
\* of the chain produced clears no further mark.
C11_ChainFixedPoint ==
    (pc = "segments") => filter_chain(fractals_data) = fractals_data

\* adjacent marks of df: none stands between them
AdjacentMarks(df, p, q) ==
    /\ p < q
    /\ df[p].is_fractal
    /\ df[q].is_fractal
    /\ \A r \in (p + 1)..(q - 1) : ~df[r].is_fractal

\* C12: after the chain any two adjacent surviving marks are at least 4 rows apart.
C12_Separation ==
    (pc = "segments") =>
        \A p, q \in 1..Len(fractals_data) :
            AdjacentMarks(fractals_data, p, q) => q - p >= MinGap

\* C13: after the chain every surviving mark but the first strictly dominates the
\* nearest surviving opposite mark before it and after it (a bottom's low is below
\* the top's high, a top's high above the bottom's low).
C13_PriceDominance ==
    (pc = "segments") =>
        LET M     == fractals_data
            marks == {p \in 1..Len(M) : M[p].is_fractal}
        IN  \A p \in marks :
                p # SetMin(marks) =>
                    /\ ~Dominated(M, p, NearestBefore(M, p, Opposite(M[p].fractal_type)))
                    /\ ~Dominated(M, p, NearestAfter(M, p, Opposite(M[p].fractal_type)))

\* the chain ended with two marks or more, and the first relation pass of the
\* chain had cleared a mark
C13_Witness ==
    /\ pc = "segments"
    /\ Cardinality({p \in 1..Len(fractals_data) : fractals_data[p].is_fractal}) >= 2
    /\ LET I == identify_fractals(chanlun_data, initial_direction)
           C == filter_consecutive_fractals(filter_fractals_by_extremes(I, Window))
       IN  RelationScan(C).removed_count > 0

\* C14: every stroke emitted by identify_segments joins two marks of opposite
\* type, is "up" exactly when it starts at a bottom, starts at a lower row than
\* it ends, and ends on the row where the next stroke starts
C14_StrokeShape ==
    (pc \in {"done", "strokes"}) =>
        /\ \A m \in 1..Len(strokes) :
              /\ strokes[m].start_type # strokes[m].end_type
              /\ (strokes[m].direction = "up") <=> (strokes[m].start_type = "bottom")
              /\ strokes[m].direction \in {"up", "down"}
              /\ strokes[m].start_idx < strokes[m].end_idx
        /\ \A m \in 1..(Len(strokes) - 1) :
              /\ strokes[m].end_idx = strokes[m + 1].start_idx
              /\ strokes[m].end_type = strokes[m + 1].start_type

\* two strokes or more were emitted
C14_Witness ==
    /\ pc = "strokes"
    /\ Len(strokes) >= 2
    /\ Len(SegmentFractals(fractals_data)) > Len(strokes) + 1

\* The rows a greedy alternation keeps: the first mark, and every mark whose type
\* differs from the mark just before it (the marks skipped since the last kept
\* one all have the kept one's type).
RunHeads(df) ==
    LET F == Ascending({p \in 1..Len(df) : df[p].is_fractal /\ df[p].fractal_type # "None"})
    IN  Ascending({F[k] : k \in {n \in 1..Len(F) :
                        n = 1 \/ df[F[n]].fractal_type # df[F[n - 1]].fractal_type}})

\* price of a mark: the bar's high for a top, its low for a bottom
MarkPrice(row) == IF row.fractal_type = "top" THEN row.high ELSE row.low

\* C15: identify_segments keeps the first mark and every later mark of the
\* expected type, and emits one stroke per adjacent pair of kept marks, numbered
\* from 0, running from K[m] to K[m+1] and priced at the high of a top and the low
\* of a bottom; fewer than two kept marks give no stroke
C15_GreedyStrokes ==
    (pc \in {"done", "strokes"}) =>
        LET K == RunHeads(fractals_data)
        IN  /\ Len(strokes) = IF Len(K) < 2 THEN 0 ELSE Len(K) - 1
            /\ \A m \in 1..Len(strokes) :
                  /\ strokes[m].id = m - 1
                  /\ strokes[m].start_idx = K[m]
                  /\ strokes[m].end_idx = K[m + 1]
                  /\ strokes[m].start_type = fractals_data[K[m]].fractal_type
                  /\ strokes[m].end_type = fractals_data[K[m + 1]].fractal_type
                  /\ strokes[m].start_price = MarkPrice(fractals_data[K[m]])
                  /\ strokes[m].end_price = MarkPrice(fractals_data[K[m + 1]])
                  /\ strokes[m].direction =
                        IF fractals_data[K[m]].fractal_type = "bottom" THEN "up" ELSE "down"

\* a stroke was emitted from a frame in which a mark of the wrong type was
\* skipped and whose top is priced differently at its high than at its low
C15_Witness ==
    /\ pc = "strokes"
    /\ Len(strokes) >= 1
    /\ Len(SegmentFractals(fractals_data)) > Len(strokes) + 1
    /\ \E m \in 1..Len(strokes) :
          /\ strokes[m].start_type = "bottom"
          /\ fractals_data[strokes[m].start_idx].high # fractals_data[strokes[m].start_idx].low

\* the ways a call of process_klines ends
Ended == pc \in {"returned", "KeyError", "labels_off"}

\* C16: a call of process_klines ends the same way and yields the same structural
\* bars, marks and strokes as the same call on a fresh instance, whatever the
\* instance has processed before
C16_Determinism ==
    Ended =>
        LET r == process_klines(original_data, label0, FreshSelf)
        IN  /\ pc = r.outcome
            /\ (pc = "returned") =>
                  /\ chanlun_data = r.chanlun_data
                  /\ segments_data = r.segments_data
                  /\ strokes = r.strokes
                  /\ segments = r.segments

\* C17: process_klines on a frame without rows returns a frame without rows and
\* raises nothing
C17_EmptyInput ==
    (Ended /\ Len(original_data) = 0) =>
        /\ pc = "returned"
        /\ Len(segments_data) = 0

\* the seed-direction mark: a top when the seed is down, a bottom when it is up
SeedMark(seed) == IF seed = "down" THEN "top" ELSE "bottom"

\* C18: when one raw bar reaches the merger, the pipeline returns one structural
\* bar that carries the seed direction and the seed-direction mark, and no stroke
C18_OneBar ==
    (pc \in {"done", "labels_off"} /\ Len(trimmed_data) = 1) =>
        /\ pc = "done"
        /\ Len(segments_data) = 1
        /\ "direction" \in DOMAIN segments_data[1]
        /\ segments_data[1].direction = initial_direction
        /\ segments_data[1].is_fractal
        /\ segments_data[1].fractal_type = SeedMark(initial_direction)
        /\ strokes = <<>>

\* C19: on a frame that lacks datetime, high or low the call ends in an error,
\* keeps no bar data and runs no later stage
C19_MissingFields ==
    (Ended /\ Len(original_data) > 0
           /\ ~({"datetime", "high", "low"} \subseteq Columns(original_data))) =>
        /\ pc = "KeyError"
        /\ trimmed_data = <<>>
        /\ chanlun_data = <<>>

\* C20: process_klines on the frame the trimmer returned for a valid input drops
\* nothing, seeds the same direction and returns the same structural bars
C20_TrimRoundTrip ==
    (Ended /\ last_pass = "process_klines(trimmed_data)") =>
        /\ Len(trimmed_data) = Len(original_data)
        /\ initial_direction = first_run.initial_direction
        /\ pc = "returned"
        /\ chanlun_data = first_run.chanlun_data

\* C21: every structural bar the merger holds or has emitted has high >= low, the
\* raw bars having high >= low
C21_HighAboveLow ==
    /\ \A p \in 1..Len(chanlun_group) : chanlun_group[p].high >= chanlun_group[p].low
    /\ \A p \in 1..Len(chanlun_klines) : chanlun_klines[p].high >= chanlun_klines[p].low
    /\ (pc \in {"identify", "F1", "segments", "done"}) =>
          \A p \in 1..Len(chanlun_data) : chanlun_data[p].high >= chanlun_data[p].low

\* a structural bar that absorbed two raw bars with different ranges was emitted
\* after an earlier one
C21_Witness ==
    /\ pc = "outer"
    /\ Len(chanlun_klines) >= 2
    /\ j = i
    /\ \E p \in 1..(Len(trimmed_data) - 2) :
          /\ trimmed_data[p].datetime = chanlun_klines[Len(chanlun_klines)].datetime
          /\ j = p + 3
          /\ trimmed_data[p + 1].high - trimmed_data[p + 1].low
                # trimmed_data[p].high - trimmed_data[p].low

\* the six digits of a mainland code, by its first characters
ExchangePrefix(c) ==
    IF c[1] \in {"6", "5"} THEN <<"s", "h", ".">>
    ELSE IF c[1] \in {"0", "3"} \/ (c[1] = "1" /\ c[2] = "5") THEN <<"s", "z", ".">>
    ELSE IF c[1] \in {"8", "9", "4"} THEN <<"b", "j", ".">>
    ELSE <<>>

\* C22 (rules): for the trimmed, upper-cased argument c the normalizer returns c
\* when it is all digits and at most five long, or holds a dot and "HK"; c in
\* lower case when it holds a dot; the exchange prefix and c when c is six
\* digits; and c otherwise
C22_Rules ==
    (pc = "normalized") =>
        LET c == Upper(Strip(code))
        IN  normalized =
              CASE IsDigit(c) /\ Len(c) <= 5 -> c
                [] ~(IsDigit(c) /\ Len(c) <= 5)
                   /\ Contains(c, <<".">>) /\ Contains(c, <<"H", "K">>) -> c
                [] Contains(c, <<".">>) /\ ~Contains(c, <<"H", "K">>) -> Lower(c)
                [] IsDigit(c) /\ Len(c) = 6 -> ExchangePrefix(c) \o c
                [] OTHER -> c

InferredDirection(S, seed) ==
    IF Len(S) <= 1 THEN seed
    ELSE LET a == S[Len(S) - 1]
             b == S[Len(S)]
         IN  IF b.high > a.high THEN "up"
             ELSE IF b.low < a.low THEN "down"
             ELSE b.direction

\* C23: the tag of every emitted structural bar is the direction inferred from
\* the bars emitted before it (the seed while fewer than two were emitted, else
\* up on a higher high of the last over the second-to-last, else down on a lower
\* low, else the tag of the last), and it is up or down
C23_DirectionFromEmitted ==
    /\ \A k \in 1..Len(chanlun_klines) :
          /\ chanlun_klines[k].direction
                = InferredDirection(SubSeq(chanlun_klines, 1, k - 1), initial_direction)
          /\ chanlun_klines[k].direction \in {"up", "down"}
    /\ (pc \in {"identify", "F1", "segments", "done"} /\ Len(trimmed_data) >= 2)
          => chanlun_data = chanlun_klines

\* a bar was emitted after a pair whose last bar made neither a higher high nor
\* a lower low, and it carries a tag that differs from the seed
C23_Witness ==
    \E k \in 3..Len(chanlun_klines) :
        /\ chanlun_klines[k - 1].high <= chanlun_klines[k - 2].high
        /\ chanlun_klines[k - 1].low >= chanlun_klines[k - 2].low
        /\ chanlun_klines[k].direction # initial_direction

\* C24: while filter_close_fractals scans, a mark the same scan cleared before
\* is not read again, neither as A or B of a close pair nor as A1 nor as B1
C24_SurvivingMarksOnly ==
    (last_pass = "F4") => StaleReads(before, MinGap) = {}

\* F3 and F4 each followed by F2 whether or not they cleared a mark
RelationThenConsecutive(df) == filter_consecutive_fractals(RelationScan(df).df)

CloseThenConsecutive(df) == filter_consecutive_fractals(CloseScan(df, MinGap).df)

ChainUnconditional(df) ==
    LET f1 == filter_fractals_by_extremes(df, Window)
        f2 == filter_consecutive_fractals(f1)
        f3 == RelationThenConsecutive(f2)
        f4 == CloseThenConsecutive(f3)
        f5 == RelationThenConsecutive(f4)
    IN  CloseThenConsecutive(f5)

\* C25: in process_fractals every F3 and F4 pass, which re-runs F2 only after
\* clearing a mark, leaves the marks that its scan followed by F2 would leave,
\* and the six passes leave the marks of the chain with F2 after every F3 and F4
C25_ConditionalRerunEquivalent ==
    /\ (last_pass \in {"F3", "F4"}) => fractals_data = filter_consecutive_fractals(scanned)
    /\ (pc = "segments")
          => fractals_data
               = ChainUnconditional(identify_fractals(chanlun_data, initial_direction))

\* the last F4 pass cleared nothing and so did not re-run F2, on a frame with
\* two or more marks of which an earlier pass had cleared some
C25_Witness ==
    /\ pc = "segments"
    /\ last_pass = "F4"
    /\ scanned = before
    /\ Cardinality({p \in 1..Len(before) : before[p].is_fractal}) >= 2
    /\ fractals_data # identify_fractals(chanlun_data, initial_direction)

\* the run has stopped with an uncaught KeyError: the trimmer left one bar
\* labelled 2 or more, identify_fractals put the seed mark on a new row labelled
\* 0, and the passes look up the label 1
RaisedKeyError == pc = "labels_off" /\ Len(original_data) - Len(trimmed_data) >= 2

\* the merger's loops: every iteration moves i or j forward, and neither passes
\* the end of the frame by more than one
C26_LoopsAdvance ==
    [][(pc \in {"outer", "inner"} /\ pc' \in {"outer", "inner"})
          => /\ i' >= i /\ j' >= j /\ i' + j' > i + j
             /\ i' <= Len(trimmed_data) + 1 /\ j' <= Len(trimmed_data) + 1]_vars

\* C26: a run of process_klines on a finite valid input does not stop before the
\* pipeline's final stage, identify_segments, has been carried out
C26_ReachesFinalStage ==
    \/ pc = "done"
    \/ pc = "labels_off" /\ ~RaisedKeyError
    \/ ENABLED Next

\* the raw rows, among the first m, that belong to the k-th bar of S: those from
\* its timestamp up to the timestamp of the bar after it
GroupOf(S, raw, m, k) ==
    {p \in 1..m : /\ raw[p].datetime >= S[k].datetime
                  /\ (k < Len(S) => raw[p].datetime < S[k + 1].datetime)}

RECURSIVE SumOver(_, _, _)
SumOver(raw, P, field) ==
    IF P = {} THEN 0
    ELSE LET p == SetMin(P) IN raw[p][field] + SumOver(raw, P \ {p}, field)

\* S partitions the first m raw rows into consecutive non-empty groups
Partitions(S, raw, m) ==
    /\ Len(S) <= m
    /\ (m >= 1) => (Len(S) >= 1 /\ S[1].datetime = raw[1].datetime)
    /\ \A k \in 1..Len(S) :
          /\ \E p \in 1..m : raw[p].datetime = S[k].datetime
          /\ (k < Len(S)) => S[k].datetime < S[k + 1].datetime
          /\ GroupOf(S, raw, m, k) # {}
          /\ S[k].volume = SumOver(raw, GroupOf(S, raw, m, k), "volume")
          /\ S[k].amount = SumOver(raw, GroupOf(S, raw, m, k), "amount")
    /\ \A p \in 1..m : Cardinality({k \in 1..Len(S) : p \in GroupOf(S, raw, m, k)}) = 1
    /\ SumVolume(S) = SumOver(raw, 1..m, "volume")
    /\ SumAmount(S) = SumOver(raw, 1..m, "amount")

\* C27: the structural bars partition the trimmed raw bars into consecutive
\* non-empty groups: their timestamps are an increasing selection of the raw
\* timestamps that starts with the first, they are no more than the raw bars,
\* every raw bar lies in exactly one group, and volume and amount of each bar,
\* and in total, are the sums over its group
C27_MergerPartitions ==
    /\ (pc = "outer") => Partitions(chanlun_klines, trimmed_data, i - 1)
    /\ (pc \in {"identify", "labels_off", "F1", "F2", "F3", "F4", "F3b", "F4b",
                "segments", "done"})
          => Partitions(chanlun_data, trimmed_data, Len(trimmed_data))

\* three or more structural bars were returned, fewer than the raw bars
C27_Witness ==
    /\ pc = "identify"
    /\ Len(chanlun_data) >= 3
    /\ Len(chanlun_data) < Len(trimmed_data)

\* C28: the marks process_fractals leaves alternate in type, so the stroke
\* builder skips none of them and builds one stroke less than there are marks
C28_MarksAlternate ==
    /\ (pc \in {"segments", "done"})
          => LET fi == FractalIndices(fractals_data)
             IN  \A k \in 1..(Len(fi) - 1) :
                    fractals_data[fi[k]].fractal_type # fractals_data[fi[k + 1]].fractal_type
    /\ (pc = "done" /\ Len(FractalIndices(fractals_data)) >= 2)
          => /\ FilteredFractals(SegmentFractals(fractals_data))
                  = SegmentFractals(fractals_data)
             /\ Len(strokes) = Len(FractalIndices(fractals_data)) - 1

\* the stroke builder ran on three or more surviving marks
C28_Witness ==
    /\ pc = "done"
    /\ Len(FractalIndices(fractals_data)) >= 3
    /\ Len(strokes) >= 2

\* C29: after a call of process_klines has returned, the stroke counts that
\* get_processing_summary reports are those of the strokes of that call
C29_SummaryOfLatestRun ==
    (pc = "returned" /\ get_processing_summary(Self).has_segment_count)
        => LET summary == get_processing_summary(Self)
           IN  /\ summary.segment_count = Len(strokes)
               /\ summary.up_segment_count
                    = Cardinality({k \in 1..Len(strokes) : strokes[k].direction = "up"})
               /\ summary.down_segment_count
                    = Cardinality({k \in 1..Len(strokes) : strokes[k].direction = "down"})

\* the mirror image of a marked frame: every top a bottom and every bottom a
\* top, every bar's (high, low) replaced by (-low, -high)
Mirror(df) ==
    [p \in 1..Len(df) |->
        [df[p] EXCEPT !.high = 0 - df[p].low,
                      !.low  = 0 - df[p].high,
                      !.open = 0 - df[p].close,
                      !.close = 0 - df[p].open,
                      !.fractal_type = IF @ = "top" THEN "bottom"
                                       ELSE IF @ = "bottom" THEN "top" ELSE @]]

\* C30: the scan of filter_close_fractals on the mirror image of a frame clears
\* the mirror image of the marks it clears on the frame, and so does the whole
\* pass
C30_MirrorSymmetric ==
    (last_pass = "F4")
        => /\ CloseScan(Mirror(before), MinGap).df = Mirror(scanned)
           /\ filter_close_fractals(Mirror(before), MinGap) = Mirror(fractals_data)

\* the scan cleared marks of a frame whose first close pair runs bottom to top
\* and has both a later bottom and a later top to compare with
C30_Witness ==
    /\ last_pass = "F4"
    /\ scanned # before
    /\ LET fl == FractalList(before)
       IN  /\ Len(fl) >= 4
           /\ fl[1].type = "bottom" /\ fl[2].type = "top"
           /\ fl[2].index - fl[1].index < MinGap
           /\ FirstOfType(fl, 3, Len(fl), "bottom") # 0
           /\ FirstOfType(fl, 4, Len(fl), "top") # 0

============================================================================
